---- MODULE Spec2Model ----
(***************************************************************************)
(* Majorant-based free-flight sampling of pbrt-v4 participating media      *)
(* (src/pbrt/media.h): HomogeneousMedium::SampleT_maj, the 3-D DDA walk    *)
(* of CuboidMedium::SampleT_maj over the majorant grid, and the majorant   *)
(* grids of the cloud and NanoVDB density providers.                       *)
(*                                                                         *)
(* Number representation.  Lengths, ray parameters t and coefficients are  *)
(* integers.  The medium bounds are the box [0, BW(axis)] with             *)
(* BW(axis) = gridResolution[axis] * CellW(axis), so that                  *)
(* Offset(p)[axis] * gridResolution[axis] = p[axis] / CellW(axis).         *)
(* IEEE infinities and NaN are the sentinels Inf, NegInf and NaN, compared *)
(* and added by FLt, FAdd, FDiv the way the hardware does.                 *)
(* A transmittance (a SampledSpectrum exp(-tau)) is stored as its optical  *)
(* depth tau per channel: the value 1 is depth 0 (One), a product of       *)
(* transmittances is a sum of depths, and exp(-Inf) = 0 is DepthInf.       *)
(* Spectra have two channels; channel 1 here is index [0] of the code.     *)
(***************************************************************************)
EXTENDS Integers, Naturals, Sequences, FiniteSets, TLC

(***************************************************************************)
(* Bounds of the model.                                                    *)
(***************************************************************************)
ResX == 2
ResY == 2
ResZ == 2
CellWX == 2
CellWY == 1
CellWZ == 2
MaxDraws == 2
\* fixed-point resolution of the cloud densities: FixOne is the value 1.0
FixOne == 4
\* resolution of the NanoVDB majorant grid in the model, and worker threads filling it
NvdbResX == 2
NvdbResY == 2
NvdbResZ == 1
NvdbWorkers == 2

Axes == 1..3

\* gridResolution, as returned through *res by the provider's GetMaxDensityGrid
gridResolution == <<ResX, ResY, ResZ>>
CellW == <<CellWX, CellWY, CellWZ>>
\* mediumBounds.pMax (pMin is the origin): provider->Bounds()
BW == [a \in Axes |-> gridResolution[a] * CellW[a]]
NumCells == ResX * ResY * ResZ

(***************************************************************************)
(* IEEE arithmetic on the extended numbers.                                *)
(***************************************************************************)
Inf == 1000 * (BW[1] + BW[2] + BW[3] + 1)
NegInf == 0 - Inf
NaN == Inf + 1
\* std::numeric_limits<Float>::max()
FloatMax == Inf - 1

Abs(x) == IF x < 0 THEN 0 - x ELSE x
IsFinite(x) == x # NaN /\ x # Inf /\ x # NegInf
\* a < b, false when either side is NaN
FLt(a, b) == a # NaN /\ b # NaN /\ a < b
FGt(a, b) == FLt(b, a)
FGe(a, b) == a # NaN /\ b # NaN /\ a >= b
\* a + b
FAdd(a, b) ==
    IF a = NaN \/ b = NaN THEN NaN
    ELSE IF a = Inf \/ b = Inf
        THEN (IF a = NegInf \/ b = NegInf THEN NaN ELSE Inf)
    ELSE IF a = NegInf \/ b = NegInf THEN NegInf
    ELSE a + b
\* -a and a - b
FNeg(a) == IF a = NaN THEN NaN ELSE IF a = Inf THEN NegInf ELSE IF a = NegInf THEN Inf ELSE 0 - a
FSub(a, b) == FAdd(a, FNeg(b))
\* quotient of integers truncated toward zero (the float-to-int conversion)
TruncDiv(n, d) == IF n >= 0 THEN n \div d ELSE 0 - ((0 - n) \div d)
\* n / d for finite n and d: x/0 is +-infinity, 0/0 is NaN
FDiv(n, d) ==
    IF d = 0 THEN (IF n = 0 THEN NaN ELSE IF n > 0 THEN Inf ELSE NegInf)
    ELSE IF d > 0 THEN TruncDiv(n, d)
    ELSE TruncDiv(0 - n, 0 - d)
\* std::min(a, b) == (b < a) ? b : a
FMin(a, b) == IF FLt(b, a) THEN b ELSE a
\* pbrt Clamp(val, low, high)
Clamp(val, low, high) == IF val < low THEN low ELSE IF val > high THEN high ELSE val

(***************************************************************************)
(* Spectra (two channels) and transmittances in optical-depth form.        *)
(***************************************************************************)
Channels == 1..2
\* SampledSpectrum operator+
SpecAdd(a, b) == [c \in Channels |-> a[c] + b[c]]
\* Float * SampledSpectrum
SpecScale(k, a) == [c \in Channels |-> k * a[c]]
\* SampledSpectrum(1.f)
One == [c \in Channels |-> 0]
\* exp(-Inf) = 0
DepthInf == Inf
\* one channel of FastExp(-sigma * len): its optical depth sigma * len
DepthMul(sigma, len) ==
    IF len = NaN THEN NaN
    ELSE IF sigma = 0 THEN (IF IsFinite(len) THEN 0 ELSE NaN)
    ELSE IF len >= FloatMax THEN DepthInf
    ELSE IF len = NegInf THEN NegInf
    ELSE sigma * len
\* FastExp(-sigma * len)
FastExpNeg(sigma, len) == [c \in Channels |-> DepthMul(sigma[c], len)]
\* SampledSpectrum operator* on two transmittances
TMul(a, b) == [c \in Channels |-> FAdd(a[c], b[c])]

\* levels of a uniform sample u in [0,1): 0 is u = 0
ULevels == 0..2
\* -log(1 - u) for the three levels of u, in units of 1/4
ExpTable == <<0, 4, 16>>
\* SampleExponential(u, a) == -log(1 - u) / a
SampleExponential(lvl, a) == FDiv(ExpTable[lvl + 1], a)

(***************************************************************************)
(* Bounds3::IntersectP(o, d, tMax, &hitt0, &hitt1): the slab test, one     *)
(* slab per axis with (pMin - o) * (1 / d) and (pMax - o) * (1 / d); a     *)
(* zero direction component gives infinite or NaN slab distances, which    *)
(* the comparisons let pass.  The widening of tFar by 1 + 2 * gamma(3), a  *)
(* guard against rounding, has no counterpart in exact arithmetic.         *)
(***************************************************************************)
SlabStep(st, a, o, d) ==
    IF ~st.hit THEN st
    ELSE
        LET n0 == FDiv(0 - o[a], d[a])
            f0 == FDiv(BW[a] - o[a], d[a])
            swap == FGt(n0, f0)
            tNear == IF swap THEN f0 ELSE n0
            tFar == IF swap THEN n0 ELSE f0
            t0 == IF FGt(tNear, st.t0) THEN tNear ELSE st.t0
            t1 == IF FLt(tFar, st.t1) THEN tFar ELSE st.t1
        IN  [hit |-> ~FGt(t0, t1), t0 |-> t0, t1 |-> t1]

IntersectP(o, d, tmax) ==
    SlabStep(SlabStep(SlabStep([hit |-> TRUE, t0 |-> 0, t1 |-> tmax], 1, o, d),
                      2, o, d), 3, o, d)

(***************************************************************************)
(* State.                                                                  *)
(***************************************************************************)
VARIABLES
    medium,         \* CuboidMedium members: sigma_a_spec, sigma_s_spec, sigScale, maxDensityGrid
    ray,            \* the ray in medium space (o, d) and raytMax, after lines 209-211
    u,              \* the current uniform sample (level)
    rng,            \* the caller's RNG: number of values drawn from it so far
    pc,             \* position of the call
    dda,            \* tMin, tMax, step, voxelLimit, deltaT: fixed by the DDA setup
    voxel,          \* voxel[3]
    nextCrossingT,  \* nextCrossingT[3]
    seg,            \* t0, t1, stepAxis, sigma_maj of the current voxel
    T_majAccum,     \* accumulated transmittance
    ret,            \* the value returned
    obs,            \* what the caller and the callback observed of the call
    hom,            \* HomogeneousMedium::SampleT_maj: arguments and outcome of the calls
    cloud,          \* CloudMediumProvider: parameters, lookup point and Density result
    nvdb,           \* NanoVDBMediumProvider: source grid, mapping and maxGrid
    params,         \* CuboidMedium::Create: the ParameterDictionary and what Create did
    provider,       \* the CuboidProvider of a medium: its grid and the calls made to it
    threads,        \* rendering threads sharing one medium: the locals of the parked calls
    render,         \* RenderCPU: the parsed scene and the position of the function
    bufs,           \* NanoVDBBuffer objects: alloc, bytesAllocated, ptr
    heap            \* blocks handed out by allocate_bytes

cuboidVars == <<medium, ray, u, rng, pc, dda, voxel, nextCrossingT, seg, T_majAccum, ret, obs>>
vars == <<medium, ray, u, rng, pc, dda, voxel, nextCrossingT, seg, T_majAccum, ret, obs,
          hom, cloud, nvdb, params, provider, threads, render, bufs, heap>>
\* the state of the parts of the program a specification does not run
restVars == <<params, provider, threads, render, bufs, heap>>

(***************************************************************************)
(* CuboidMedium::SampleT_maj: bounds overlap and DDA setup.                *)
(***************************************************************************)
\* sigma_t = sigScale * sigma_a_spec.Sample(lambda) + sigScale * sigma_s_spec.Sample(lambda)
SigmaT(m) == SpecAdd(SpecScale(m.sigScale, m.sigma_a_spec),
                     SpecScale(m.sigScale, m.sigma_s_spec))

\* rayGrid(tMin)[axis], in lengths from mediumBounds.pMin
GridIntersect(r, tMin, a) == r.o[a] + r.d[a] * tMin

\* the entry voxel taken without the clamp
EntryVoxelUnclamped(gi, a) == TruncDiv(gi, CellW[a])
\* voxel[axis] = Clamp(gridIntersect[axis] * gridResolution[axis], 0, gridResolution[axis] - 1)
EntryVoxel(gi, a) == Clamp(TruncDiv(gi, CellW[a]), 0, gridResolution[a] - 1)

\* deltaT[axis] = 1 / |rayGrid.d[axis] * gridResolution[axis]|
AxisDeltaT(r, a) == FDiv(CellW[a], Abs(r.d[a]))

\* the negative-direction branch stepping forward
AxisStepForward(r, a) == 1
\* step[axis]
AxisStep(r, a) == IF r.d[a] >= 0 THEN 1 ELSE 0 - 1

\* voxelLimit[axis]
AxisLimit(r, a) == IF r.d[a] >= 0 THEN gridResolution[a] ELSE 0 - 1

\* nextCrossingT[axis] = tMin + (nextVoxelPos - gridIntersect[axis]) / rayGrid.d[axis]
AxisNextCrossing(r, tMin, a) ==
    LET gi == GridIntersect(r, tMin, a)
        v == EntryVoxel(gi, a)
        nextVoxelPos == IF r.d[a] >= 0 THEN (v + 1) * CellW[a] ELSE v * CellW[a]
    IN  FAdd(tMin, FDiv(nextVoxelPos - gi, r.d[a]))

\* a table whose entry for the code 0 is axis 1
cmpToAxisFirstEntry == <<1, 1, 2, 1, 2, 2, 0, 0>>
\* const int cmpToAxis[8]
cmpToAxis == <<2, 1, 2, 1, 2, 2, 0, 0>>

\* the 3-bit comparison code of the three crossing times
CmpBits(nct) ==
    (IF FLt(nct[1], nct[2]) THEN 4 ELSE 0) +
    (IF FLt(nct[1], nct[3]) THEN 2 ELSE 0) +
    (IF FLt(nct[2], nct[3]) THEN 1 ELSE 0)

\* stepAxis = cmpToAxis[bits], as an axis of 1..3
StepAxis(nct) == cmpToAxis[CmpBits(nct) + 1] + 1

\* offset = voxel[0] + gridResolution.x * (voxel[1] + gridResolution.y * voxel[2])
Offset(v) == v[1] + ResX * (v[2] + ResY * v[3])

\* maxDensityGrid[offset]: the values the read can yield; a read outside the vector is
\* undefined behaviour and can yield any density
GridRead(grid, offset) ==
    IF offset \in DOMAIN grid THEN {grid[offset]} ELSE {0, 1, 2}

\* the empty-space branch never taken
IsZeroMajorantNever(sigma_maj) == FALSE
\* the empty-space test made on the second channel
IsZeroMajorantOtherChannel(sigma_maj) == sigma_maj[2] = 0
\* the test of line 275 that selects the empty-space branch
IsZeroMajorant(sigma_maj) == sigma_maj[1] = 0

(***************************************************************************)
(* Inputs of a CuboidMedium::SampleT_maj call.  The ray is the ray in      *)
(* medium space: lines 209-211 rescale raytMax by Length(ray.d) and        *)
(* normalize ray.d, which leaves the points ray(t) of the segment and the  *)
(* order of all ray parameters unchanged, so the parameter t is measured   *)
(* along a direction with components in {-1, 0, 1}.                        *)
(***************************************************************************)
\* majorant grids a provider can return: empty, uniform, one dense cell, one empty cell
ZeroGrid == [i \in 0..(NumCells - 1) |-> 0]
HotGrid(k) == [i \in 0..(NumCells - 1) |-> IF i = k THEN 2 ELSE 0]
ColdGrid(k) == [i \in 0..(NumCells - 1) |-> IF i = k THEN 0 ELSE 1]
GridSet == {ZeroGrid, HotGrid(0), ColdGrid(NumCells - 1)}

MediumSet ==
    [sigma_a_spec : {<<0, 1>>},
     sigma_s_spec : {<<0, 0>>, <<1, 0>>},
     sigScale : {1, 2},
     maxDensityGrid : GridSet]

OriginSet(a) == {0 - 1, 1, BW[a]}
DirSet == {d \in [Axes -> {0 - 1, 0, 1}] : \E a \in Axes : d[a] # 0}
RayTMaxSet == {2, Inf}
RaySet ==
    {[o |-> o, d |-> d, raytMax |-> tm] :
        o \in {p \in [Axes -> UNION {OriginSet(a) : a \in Axes}] :
                  \A a \in Axes : p[a] \in OriginSet(a)},
        d \in DirSet, tm \in RayTMaxSet}

(***************************************************************************)
(* CuboidMedium::SampleT_maj as a process: call -> voxel -> sample ->      *)
(* advance -> ... -> done.                                                 *)
(***************************************************************************)
NoDda == [tMin |-> 0, tMax |-> 0, step |-> <<0, 0, 0>>, voxelLimit |-> <<0, 0, 0>>,
          deltaT |-> <<0, 0, 0>>]
NoSeg == [t0 |-> 0, t1 |-> 0, stepAxis |-> 1, sigma_maj |-> <<0, 0>>]
NoObs == [nCallbacks |-> 0, stopped |-> FALSE, visited |-> 0, sawNonZero |-> FALSE,
          steps |-> 0, lastT_maj |-> One, lastT |-> 0, from |-> 0]
Idle == [kind |-> "idle"]
\* the parts of the program a specification does not run stay idle
RestIdle ==
    /\ params = Idle
    /\ provider = Idle
    /\ threads = Idle
    /\ render = Idle
    /\ bufs = Idle
    /\ heap = Idle

CuboidInit ==
    /\ medium \in MediumSet
    /\ ray \in RaySet
    /\ u \in ULevels
    /\ rng = 0
    /\ pc = "call"
    /\ dda = NoDda
    /\ voxel = <<0, 0, 0>>
    /\ nextCrossingT = <<0, 0, 0>>
    /\ seg = NoSeg
    /\ T_majAccum = One
    /\ ret = One
    /\ obs = NoObs
    /\ hom = Idle
    /\ cloud = Idle
    /\ nvdb = Idle
    /\ RestIdle

\* a miss that returns no transmittance at all, SampledSpectrum(0.f)
MissValueZero == [c \in Channels |-> DepthInf]
\* the value returned when the ray misses mediumBounds (line 214)
MissValue == One

\* lines 208-258: the ray misses the bounds and the call returns, or the DDA is set up
Enter ==
    /\ pc = "call"
    /\ LET hit == IntersectP(ray.o, ray.d, ray.raytMax)
       IN  IF ~hit.hit
           THEN /\ ret' = MissValue
                /\ pc' = "done"
                /\ UNCHANGED <<dda, voxel, nextCrossingT, seg, T_majAccum>>
           ELSE /\ dda' = [tMin |-> hit.t0, tMax |-> hit.t1,
                           step |-> [a \in Axes |-> AxisStep(ray, a)],
                           voxelLimit |-> [a \in Axes |-> AxisLimit(ray, a)],
                           deltaT |-> [a \in Axes |-> AxisDeltaT(ray, a)]]
                /\ voxel' = [a \in Axes |-> EntryVoxel(GridIntersect(ray, hit.t0, a), a)]
                /\ nextCrossingT' = [a \in Axes |-> AxisNextCrossing(ray, hit.t0, a)]
                /\ seg' = [seg EXCEPT !.t0 = hit.t0]
                /\ T_majAccum' = One
                /\ pc' = "voxel"
                /\ UNCHANGED ret
    /\ UNCHANGED <<medium, ray, u, rng, obs, hom, cloud, nvdb, restVars>>

\* lines 260-277: choose stepAxis and t1, read the voxel's majorant; an empty voxel is
\* crossed in closed form
WalkVoxel ==
    /\ pc = "voxel"
    /\ LET stepAxis == StepAxis(nextCrossingT)
           t1 == FMin(dda.tMax, nextCrossingT[stepAxis])
       IN  \E maxDensity \in GridRead(medium.maxDensityGrid, Offset(voxel)) :
           LET sigma_maj == SpecScale(maxDensity, SigmaT(medium)) IN
           /\ seg' = [seg EXCEPT !.t1 = t1, !.stepAxis = stepAxis, !.sigma_maj = sigma_maj]
           /\ obs' = [obs EXCEPT !.visited = @ + 1,
                                 !.sawNonZero = @ \/ maxDensity # 0]
           /\ IF IsZeroMajorant(sigma_maj)
              THEN /\ T_majAccum' = TMul(T_majAccum,
                                         FastExpNeg(sigma_maj, FSub(t1, seg.t0)))
                   /\ pc' = "advance"
              ELSE /\ pc' = "sample"
                   /\ UNCHANGED T_majAccum
    /\ UNCHANGED <<medium, ray, u, rng, dda, voxel, nextCrossingT, ret, hom, cloud, nvdb, restVars>>

\* a stop that returns the transmittance handed to the callback
StopValueT_maj == obs'.lastT_maj
\* the value returned when the callback asks to stop (line 305)
StopValue == One

\* the callback's answer ignored: the loop goes on after a stop
AfterCallbackIgnored(cont, t) ==
    /\ seg' = [seg EXCEPT !.t0 = t]
    /\ pc' = "sample"
    /\ UNCHANGED ret
\* what the inner loop does with the callback's answer (lines 304-308)
AfterCallback(cont, t) ==
    IF ~cont
    THEN /\ ret' = StopValue
         /\ pc' = "done"
         /\ UNCHANGED seg
    ELSE /\ seg' = [seg EXCEPT !.t0 = t]
         /\ pc' = "sample"
         /\ UNCHANGED ret

\* a candidate measured from the ray origin instead of from t0
CandidateFromOrigin(t0, lvl, sigma) == SampleExponential(lvl, sigma)
\* Float t = t0 + SampleExponential(u, sigma_maj[0])
Candidate(t0, lvl, sigma) == FAdd(t0, SampleExponential(lvl, sigma))

\* lines 281-308: one iteration of the inner sampling loop
SampleStep ==
    /\ pc = "sample"
    /\ rng < MaxDraws
    /\ LET t == Candidate(seg.t0, u, seg.sigma_maj[1])
       IN  /\ \E next \in ULevels : u' = next
           /\ rng' = rng + 1
           /\ IF FGe(t, seg.t1)
              THEN /\ T_majAccum' = TMul(T_majAccum,
                                         FastExpNeg(seg.sigma_maj, FSub(seg.t1, seg.t0)))
                   /\ pc' = "advance"
                   /\ UNCHANGED <<seg, ret, obs>>
              ELSE IF FLt(t, dda.tMax)
              THEN /\ T_majAccum' = One
                   /\ \E cont \in BOOLEAN :
                        /\ obs' = [obs EXCEPT
                                     !.nCallbacks = @ + 1,
                                     !.stopped = ~cont,
                                     !.lastT = t,
                                     !.from = IF obs.nCallbacks = 0 THEN dda.tMin
                                              ELSE obs.lastT,
                                     !.lastT_maj =
                                         TMul(FastExpNeg(seg.sigma_maj, FSub(t, seg.t0)),
                                              T_majAccum)]
                        /\ AfterCallback(cont, t)
              ELSE /\ seg' = [seg EXCEPT !.t0 = t]
                   /\ UNCHANGED <<T_majAccum, pc, ret, obs>>
    /\ UNCHANGED <<medium, ray, dda, voxel, nextCrossingT, hom, cloud, nvdb, restVars>>

\* lines 312-321: step the DDA to the next voxel, or leave the walk and return T_majAccum
Advance ==
    /\ pc = "advance"
    /\ LET ax == seg.stepAxis
           moved == [voxel EXCEPT ![ax] = @ + dda.step[ax]]
       IN  IF FGt(nextCrossingT[ax], dda.tMax)
           THEN /\ ret' = T_majAccum
                /\ pc' = "done"
                /\ UNCHANGED <<voxel, nextCrossingT, seg, obs>>
           ELSE IF moved[ax] = dda.voxelLimit[ax]
           THEN /\ voxel' = moved
                /\ ret' = T_majAccum
                /\ pc' = "done"
                /\ UNCHANGED <<nextCrossingT, seg, obs>>
           ELSE /\ voxel' = moved
                /\ nextCrossingT' = [nextCrossingT EXCEPT ![ax] = FAdd(@, dda.deltaT[ax])]
                /\ seg' = [seg EXCEPT !.t0 = seg.t1]
                /\ obs' = [obs EXCEPT !.steps = @ + 1]
                /\ pc' = "voxel"
                /\ UNCHANGED ret
    /\ UNCHANGED <<medium, ray, u, rng, dda, T_majAccum, hom, cloud, nvdb, restVars>>

Next == Enter \/ WalkVoxel \/ SampleStep \/ Advance

Spec == CuboidInit /\ [][Next]_vars

(***************************************************************************)
(* Properties of CuboidMedium::SampleT_maj.                                *)
(***************************************************************************)
\* latest ray parameter at which a ray of RaySet can still be inside the bounds
Horizon == BW[1] + BW[2] + BW[3] + 2

\* the segment [0, raytMax] of the ray has a point in mediumBounds (crossing times are
\* integers for the rays of RaySet, so integer parameters decide it)
SegmentMeetsBounds(r) ==
    \E t \in 0..Horizon :
        /\ t <= r.raytMax
        /\ \A a \in Axes : r.o[a] + r.d[a] * t >= 0 /\ r.o[a] + r.d[a] * t <= BW[a]

\* C1: a call whose ray segment does not intersect mediumBounds returns transmittance 1
\* in every channel, with no callback, no rng draw and no majorant-grid voxel visited.
C1_MissReturnsOne ==
    (pc = "done" /\ ~SegmentMeetsBounds(ray)) =>
        /\ ret = One
        /\ obs.nCallbacks = 0
        /\ rng = 0
        /\ obs.visited = 0
        /\ obs.steps = 0

C1_Witness ==
    /\ pc = "done"
    /\ ~SegmentMeetsBounds(ray)
    /\ medium.maxDensityGrid # ZeroGrid
    /\ SigmaT(medium)[1] > 0

\* C2: while every voxel visited so far has max-density 0 there has been no callback, no
\* rng draw and the accumulated (and finally returned) transmittance is exactly 1; the
\* sampling loop, the only place a callback is issued, runs only in a voxel whose
\* max-density and majorant are non-zero.
C2_EmptySpaceSkipped ==
    /\ ~obs.sawNonZero =>
          /\ obs.nCallbacks = 0
          /\ rng = 0
          /\ T_majAccum = One
          /\ pc # "sample"
          /\ (pc = "done" => ret = One)
    /\ pc = "sample" =>
          /\ medium.maxDensityGrid[Offset(voxel)] # 0
          /\ seg.sigma_maj[1] # 0

C2_Witness ==
    /\ pc = "done"
    /\ obs.visited >= 2
    /\ ~obs.sawNonZero
    /\ medium.maxDensityGrid # ZeroGrid
    /\ SigmaT(medium)[1] > 0
    /\ ret = One

\* the voxel the walk entered the grid at
EntryVoxelOf(a) == EntryVoxel(GridIntersect(ray, dda.tMin, a), a)
\* cells moved along axis a since entry, counted in the direction of the ray
Moved(a) == (voxel[a] - EntryVoxelOf(a)) * (IF ray.d[a] >= 0 THEN 1 ELSE 0 - 1)
InGrid(v) == \A a \in Axes : v[a] >= 0 /\ v[a] <= gridResolution[a] - 1

\* C3: the voxel walk is bounded: it visits at most ResX + ResY + ResZ voxels, and every
\* outer iteration either breaks (crossing beyond tMax, or the stepped coordinate reaches
\* voxelLimit) or moves exactly one axis one cell further in its step direction, never back.
C3_WalkBounded ==
    /\ [](obs.visited <= ResX + ResY + ResZ)
    /\ [](pc \in {"voxel", "sample", "advance"} =>
            /\ InGrid(voxel)
            /\ \A a \in Axes : Moved(a) >= 0
            /\ obs.steps = Moved(1) + Moved(2) + Moved(3)
            /\ obs.visited <= obs.steps + 1)
    /\ [][pc = "advance" =>
            \/ /\ pc' = "done"
               /\ \/ /\ FGt(nextCrossingT[seg.stepAxis], dda.tMax)
                     /\ voxel' = voxel
                  \/ voxel'[seg.stepAxis] = dda.voxelLimit[seg.stepAxis]
            \/ /\ pc' = "voxel"
               /\ voxel'[seg.stepAxis] - voxel[seg.stepAxis] =
                      (IF ray.d[seg.stepAxis] >= 0 THEN 1 ELSE 0 - 1)
               /\ \A a \in Axes \ {seg.stepAxis} : voxel'[a] = voxel[a]
               /\ InGrid(voxel')]_vars

C3_Witness ==
    /\ pc = "done"
    /\ obs.visited = ResX + ResY + ResZ - 2
    /\ \E a \in Axes : ray.d[a] < 0

\* C4: the first callback that returns false ends the call at once with return value 1:
\* no step of the call follows it (no further callback, no further voxel), and the
\* transmittance accumulated before it is not what is returned.
C4_StopEndsCall ==
    /\ [](obs.stopped => pc = "done" /\ ret = One)
    /\ [][~obs.stopped]_vars

C4_Witness ==
    /\ obs.stopped
    /\ pc = "done"
    /\ obs.visited >= 2
    /\ obs.lastT_maj # One
    /\ ret = One

\* C5 as stated: a call that reported at least one collision returns 1.
C5_Original == (pc = "done" /\ obs.nCallbacks > 0) => ret = One

\* C5 amended: a call ended by a callback returning false returns 1; a call in which every
\* callback returned true returns the transmittance accumulated after the last callback
\* (T_majAccum at the end of the walk), which can differ from 1.
C5_ReturnAfterCallbacks ==
    (pc = "done" /\ obs.nCallbacks > 0) =>
        /\ obs.stopped => ret = One
        /\ ~obs.stopped => ret = T_majAccum

C5_Witness ==
    /\ pc = "done"
    /\ obs.nCallbacks > 0
    /\ ~obs.stopped
    /\ ret # One

\* C6 as stated: with base extinction zero in the first channel the walk is
\* short-circuited: no DDA step is taken and there is no callback.
C6_Original ==
    SigmaT(medium)[1] = 0 => (obs.steps = 0 /\ obs.nCallbacks = 0)

\* C6 amended: with base extinction zero in the first channel every visited voxel takes
\* the closed-form branch, so there is no callback and no rng draw and the first channel
\* of the result is 1; the walk itself is not short-circuited: the DDA still steps from
\* voxel to voxel and the other channels decay voxel by voxel.
C6_BaseZeroNoSampling ==
    SigmaT(medium)[1] = 0 =>
        /\ obs.nCallbacks = 0
        /\ rng = 0
        /\ pc # "sample"
        /\ T_majAccum[1] = 0
        /\ (pc = "done" => ret[1] = 0)

C6_Witness ==
    /\ pc = "done"
    /\ SigmaT(medium)[1] = 0
    /\ obs.steps >= 1
    /\ obs.sawNonZero
    /\ ret # One

(***************************************************************************)
(* HomogeneousMedium.                                                      *)
(***************************************************************************)
\* the constructor: the spectra are stored scaled by sigScale
HomogeneousMedium(sigma_a, sigma_s, sigScale) ==
    [sigma_a_spec |-> SpecScale(sigScale, sigma_a),
     sigma_s_spec |-> SpecScale(sigScale, sigma_s)]

\* tMax *= Length(ray.d), then an infinite tMax becomes the largest finite float
HomTMax(tMaxIn, dLen) ==
    LET scaled == IF IsFinite(tMaxIn) THEN tMaxIn * dLen ELSE tMaxIn
    IN  IF scaled = Inf THEN FloatMax ELSE scaled

\* a sampled distance taken from the rng instead of from u
HomDistanceFromRng(lvl, rngState, a) == SampleExponential(rngState % 3, a)
\* Float t = SampleExponential(u, sigma_maj[0]); the rng is an argument it does not use
HomDistance(lvl, rngState, a) == SampleExponential(lvl, a)

\* an event reported also when it lands exactly on tMax
HomReportsInclusive(t, tMax) == FLt(t, tMax) \/ t = tMax
\* the test `t < tMax` of line 141
HomReports(t, tMax) == FLt(t, tMax)

\* HomogeneousMedium::SampleT_maj(ray, tMax, u, rng, lambda, callback): what the call
\* returns, the callbacks it makes (each with its distance and T_maj) and the rng it leaves
HomSampleT_maj(m, dLen, tMaxIn, lvl, rngState) ==
    LET tMax == HomTMax(tMaxIn, dLen)
        sigma_maj == SpecAdd(m.sigma_a_spec, m.sigma_s_spec)
        t == HomDistance(lvl, rngState, sigma_maj[1])
    IN  IF sigma_maj[1] = 0
        THEN [ret |-> FastExpNeg(sigma_maj, tMax), callbacks |-> <<>>, rng |-> rngState]
        ELSE IF HomReports(t, tMax)
        THEN [ret |-> One,
              callbacks |-> <<[t |-> t, T_maj |-> FastExpNeg(sigma_maj, t)]>>,
              rng |-> rngState]
        ELSE [ret |-> FastExpNeg(sigma_maj, tMax), callbacks |-> <<>>, rng |-> rngState]

HomMediumSet ==
    {HomogeneousMedium(a, s, k) :
        a \in {<<0, 0>>, <<0, 1>>, <<1, 1>>}, s \in {<<0, 0>>, <<1, 0>>}, k \in {1, 2}}
\* Length(ray.d) and the tMax argument of the calls
HomLengthSet == {1, 2}
HomTMaxSet == {0, 1, 2, 5, Inf}
RngStates == 0..2
NoOutcome == [ret |-> One, callbacks |-> <<>>, rng |-> 0]

HomInit ==
    /\ hom \in [kind : {"hom"}, m : HomMediumSet, dLen : HomLengthSet,
                tMaxIn : HomTMaxSet, rngBefore : {0}, cbAnswer : {TRUE},
                first : {NoOutcome}, firstRng : {0}, second : {NoOutcome}]
    /\ u \in ULevels
    /\ rng \in RngStates
    /\ pc = "hom1"
    /\ ret = One
    /\ obs = NoObs
    /\ medium = Idle
    /\ ray = Idle
    /\ dda = NoDda
    /\ voxel = <<0, 0, 0>>
    /\ nextCrossingT = <<0, 0, 0>>
    /\ seg = NoSeg
    /\ T_majAccum = One
    /\ cloud = Idle
    /\ nvdb = Idle
    /\ RestIdle

\* one call of SampleT_maj; the callback, if invoked, answers anything
HomCall ==
    /\ pc \in {"hom1", "hom2"}
    /\ LET out == HomSampleT_maj(hom.m, hom.dLen, hom.tMaxIn, u, rng)
       IN  /\ ret' = out.ret
           /\ rng' = out.rng
           /\ obs' = [obs EXCEPT
                        !.nCallbacks = Len(out.callbacks),
                        !.lastT = IF out.callbacks = <<>> THEN 0 ELSE out.callbacks[1].t,
                        !.lastT_maj =
                            IF out.callbacks = <<>> THEN One ELSE out.callbacks[1].T_maj]
           /\ \E answer \in (IF out.callbacks = <<>> THEN {TRUE} ELSE BOOLEAN) :
                IF pc = "hom1"
                THEN /\ hom' = [hom EXCEPT !.first = out, !.firstRng = rng,
                                           !.rngBefore = rng, !.cbAnswer = answer]
                     /\ pc' = "homAgain"
                ELSE /\ hom' = [hom EXCEPT !.second = out, !.rngBefore = rng,
                                           !.cbAnswer = answer]
                     /\ pc' = "done"
    /\ UNCHANGED <<medium, ray, u, dda, voxel, nextCrossingT, seg, T_majAccum, cloud, nvdb, restVars>>

\* the caller repeats the call with equal arguments and an rng in any state
HomAgain ==
    /\ pc = "homAgain"
    /\ \E r \in RngStates : rng' = r
    /\ obs' = NoObs
    /\ ret' = One
    /\ pc' = "hom2"
    /\ UNCHANGED <<medium, ray, u, dda, voxel, nextCrossingT, seg, T_majAccum, hom,
                   cloud, nvdb, restVars>>

HomNext == HomCall \/ HomAgain

SpecHom == HomInit /\ [][HomNext]_vars

\* the majorant and the scaled tMax of the homogeneous call in progress
HomSigmaMaj == SpecAdd(hom.m.sigma_a_spec, hom.m.sigma_s_spec)
HomScaledTMax ==
    IF hom.tMaxIn = Inf THEN FloatMax ELSE hom.tMaxIn * hom.dLen
\* -log(1 - u) / sigma_maj[0] for the u of the call
HomT == ExpTable[u + 1] \div HomSigmaMaj[1]

\* C7: a finished HomogeneousMedium::SampleT_maj call has invoked the callback at most
\* once and whatever the callback answered: if the majorant's first channel is non-zero
\* and t < tMax, exactly once, at t with T_maj the decay over [0, t], and the call
\* returned 1; otherwise not at all, and the call returned the decay over tMax.
C7_HomogeneousOneEvent ==
    pc \in {"homAgain", "done"} =>
        /\ obs.nCallbacks <= 1
        /\ IF HomSigmaMaj[1] # 0 /\ HomT < HomScaledTMax
           THEN /\ obs.nCallbacks = 1
                /\ obs.lastT = HomT
                /\ obs.lastT_maj = [c \in Channels |-> HomSigmaMaj[c] * HomT]
                /\ ret = One
           ELSE /\ obs.nCallbacks = 0
                /\ ret = [c \in Channels |->
                            IF HomSigmaMaj[c] = 0 THEN 0
                            ELSE IF HomScaledTMax = FloatMax THEN DepthInf
                            ELSE HomSigmaMaj[c] * HomScaledTMax]

\* a second call that reported one event, at a positive distance, to a callback that
\* answered false
C7_Witness ==
    /\ pc = "done"
    /\ obs.nCallbacks = 1
    /\ ~hom.cbAnswer
    /\ obs.lastT > 0
    /\ hom.first.callbacks # <<>>

\* C8: two calls with equal (ray, tMax, u, wavelengths) and rngs in different states
\* report the same interaction distance and T_maj and return the same value, and neither
\* call advances the rng.
C8_HomogeneousDeterministic ==
    /\ pc = "homAgain" => rng = hom.rngBefore
    /\ pc = "done" =>
          /\ rng = hom.rngBefore
          /\ hom.first.ret = hom.second.ret
          /\ hom.first.callbacks = hom.second.callbacks

C8_Witness ==
    /\ pc = "done"
    /\ hom.firstRng # hom.rngBefore
    /\ hom.first.callbacks # <<>>
    /\ hom.second.callbacks # <<>>

(***************************************************************************)
(* CloudMediumProvider.  Reals are fixed-point numbers in units of         *)
(* 1/FixOne.  Noise and DNoise are external functions of the lookup point  *)
(* pp: the only use of frequency and wispiness is to move pp, so the five  *)
(* Noise values read by Density are inputs of the lookup.                  *)
(***************************************************************************)
\* d = sum over the five octaves of omega * Noise(lambda * pp), omega = 1/2, 1/4, ...
RECURSIVE NoiseSum(_, _)
NoiseSum(noise, i) ==
    IF i > Len(noise) THEN 0
    ELSE TruncDiv(noise[i], 2 ^ i) + NoiseSum(noise, i + 1)

\* (1 - p.y) * 4.5f * density * d
CloudAltitudeDensity(py, density, d) ==
    TruncDiv((FixOne - py) * 9 * density * d, 2 * FixOne * FixOne)

\* the result returned without the final clamp
CloudFinalUnclamped(d) == d
\* MediumDensity(Clamp(d, 0, 1))
CloudFinal(d) == Clamp(d, 0, FixOne)

\* CloudMediumProvider::Density(p, lambda)
CloudDensity(c, py, noise) ==
    LET d0 == NoiseSum(noise, 1)
        d1 == Clamp(CloudAltitudeDensity(py, c.density, d0), 0, FixOne)
        \* d += 2 * max(0, 0.5 - p.y)
        d2 == d1 + (IF FixOne - 2 * py > 0 THEN FixOne - 2 * py ELSE 0)
    IN  CloudFinal(d2)

\* CloudMediumProvider::GetMaxDensityGrid: *res = (1,1,1), one cell holding 1.f
CloudGetMaxDensityGrid == [res |-> <<1, 1, 1>>, grid |-> <<FixOne>>]

CloudParamSet ==
    [kind : {"cloud"}, density : {0, FixOne, 3 * FixOne},
     wispiness : {0, FixOne}, frequency : {FixOne, 5 * FixOne},
     res : {<<0, 0, 0>>}, grid : {<<>>}, py : {0}, noise : {<<0, 0, 0, 0, 0>>}, d : {0}]
\* heights of lookup points, below, inside and above the unit slab
CloudHeights == {0 - 2 * FixOne, 0, 1, FixOne \div 2, FixOne, 2 * FixOne}
\* values Noise can take, and values beyond the range of Perlin noise
NoiseValues == {0 - 2 * FixOne, 0, FixOne}

CloudInit ==
    /\ cloud \in CloudParamSet
    /\ pc = "cloudNew"
    /\ u = 0
    /\ rng = 0
    /\ ret = One
    /\ obs = NoObs
    /\ medium = Idle
    /\ ray = Idle
    /\ dda = NoDda
    /\ voxel = <<0, 0, 0>>
    /\ nextCrossingT = <<0, 0, 0>>
    /\ seg = NoSeg
    /\ T_majAccum = One
    /\ hom = Idle
    /\ nvdb = Idle
    /\ RestIdle

\* the CuboidMedium constructor asks the provider for its majorant grid
CloudBuildGrid ==
    /\ pc = "cloudNew"
    /\ cloud' = [cloud EXCEPT !.res = CloudGetMaxDensityGrid.res,
                              !.grid = CloudGetMaxDensityGrid.grid]
    /\ pc' = "cloudReady"
    /\ UNCHANGED <<medium, ray, u, rng, dda, voxel, nextCrossingT, seg, T_majAccum, ret,
                   obs, hom, nvdb, restVars>>

\* a Density lookup at a point of height py where Noise yields the values noise
CloudLookup ==
    /\ pc = "cloudReady"
    /\ \E py \in CloudHeights, noise \in [1..5 -> NoiseValues] :
          cloud' = [cloud EXCEPT !.py = py, !.noise = noise,
                                 !.d = CloudDensity(cloud, py, noise)]
    /\ pc' = "cloudLooked"
    /\ UNCHANGED <<medium, ray, u, rng, dda, voxel, nextCrossingT, seg, T_majAccum, ret,
                   obs, hom, nvdb, restVars>>

CloudNext == CloudBuildGrid \/ CloudLookup

SpecCloud == CloudInit /\ [][CloudNext]_vars

\* C9: every value CloudMediumProvider::Density returns is in [0, 1] and so never exceeds
\* the value stored in the single cell of the 1x1x1 grid GetMaxDensityGrid returns.
C9_CloudMajorantSound ==
    pc = "cloudLooked" =>
        /\ cloud.res = <<1, 1, 1>>
        /\ Len(cloud.grid) = 1
        /\ cloud.d >= 0
        /\ cloud.d <= FixOne
        /\ cloud.d <= cloud.grid[1]

\* a lookup below the slab, where the altitude term alone exceeds 1 before the clamp
C9_Witness ==
    /\ pc = "cloudLooked"
    /\ cloud.py < 0
    /\ cloud.density > 0
    /\ NoiseSum(cloud.noise, 1) > 0
    /\ cloud.d = FixOne

(***************************************************************************)
(* NanoVDBMediumProvider::GetMaxDensityGrid.  The source grid has the      *)
(* index bounding box [NvdbBoxMin, NvdbBoxMax] and one voxel (hot) of      *)
(* value 1 among voxels of value 0; worldToIndexF is index = sign * world  *)
(* per axis (sign = -1 reverses the axis).  Index coordinates along axis a *)
(* are fixed-point numbers in units of 1/NvdbRes[a], so that the corners   *)
(* of the coarse cells are exact.                                          *)
(***************************************************************************)
\* *res = Point3i(64, 64, 64), at the resolution of the model
NvdbRes == <<NvdbResX, NvdbResY, NvdbResZ>>
NvdbCells == NvdbResX * NvdbResY * NvdbResZ
\* densityFloatGrid->indexBBox(), inclusive at both ends
NvdbBoxMin == <<0 - 2, 0, 0>>
NvdbBoxMax == <<1, 1, 0>>
NvdbExtent(a) == NvdbBoxMax[a] + 1 - NvdbBoxMin[a]

\* bounds.pMin[a] of worldBBox(), the box of the images of the corners of the index box
NvdbWorldMin(sign, a) ==
    IF sign[a] > 0 THEN NvdbBoxMin[a] ELSE 0 - (NvdbBoxMax[a] + 1)

\* the cell coordinates (x, y, z) of a work item
NvdbCellOf(index) ==
    <<index % NvdbResX, (index \div NvdbResX) % NvdbResY, index \div (NvdbResX * NvdbResY)>>

\* worldToIndexF of bounds.Lerp(k / res) along axis a, in units of 1/NvdbRes[a]
NvdbCornerIndex(sign, a, k) ==
    sign[a] * (NvdbWorldMin(sign, a) * NvdbRes[a] + NvdbExtent(a) * k)

\* nx0 = max(int(i0 - delta), bbox.min()) for the cell coordinate c of axis a
NvdbScanLo(sign, a, c) ==
    LET i0 == NvdbCornerIndex(sign, a, c)
        n == TruncDiv(i0 - NvdbRes[a], NvdbRes[a])
    IN  IF n > NvdbBoxMin[a] THEN n ELSE NvdbBoxMin[a]

\* nx1 = min(int(i1 + delta), bbox.max())
NvdbScanHi(sign, a, c) ==
    LET i1 == NvdbCornerIndex(sign, a, c + 1)
        n == TruncDiv(i1 + NvdbRes[a], NvdbRes[a])
    IN  IF n < NvdbBoxMax[a] THEN n ELSE NvdbBoxMax[a]

\* accessor.getValue({nx, ny, nz})
NvdbValue(hot, v) == IF v = hot THEN 1 ELSE 0

\* the three nested loops: the maximum over the scanned box, 0 when the box is empty
NvdbScanMax(sign, hot, index) ==
    LET cell == NvdbCellOf(index)
        inBox == \A a \in Axes : /\ hot[a] >= NvdbScanLo(sign, a, cell[a])
                                 /\ hot[a] <= NvdbScanHi(sign, a, cell[a])
        nonEmpty == \A a \in Axes :
                        NvdbScanLo(sign, a, cell[a]) <= NvdbScanHi(sign, a, cell[a])
    IN  IF nonEmpty /\ inBox THEN NvdbValue(hot, hot) ELSE 0

\* the voxels along axis a with non-zero weight in the trilinear lookup
\* (SampleFromVoxels of order 1) at the index coordinate xs: floor(x), and floor(x) + 1
\* when x is not an integer
NvdbStencil(a, xs) ==
    IF xs % NvdbRes[a] = 0 THEN {xs \div NvdbRes[a]}
    ELSE {xs \div NvdbRes[a], (xs \div NvdbRes[a]) + 1}

\* the index coordinates, along axis a, of the points of the sub-box of cell coordinate c
NvdbCellPoints(sign, a, c) ==
    LET i0 == NvdbCornerIndex(sign, a, c)
        i1 == NvdbCornerIndex(sign, a, c + 1)
    IN  IF i0 <= i1 THEN i0..i1 ELSE i1..i0

\* voxel v contributes to the Density lookup at some point of the sub-box of the cell
NvdbContributes(sign, v, index) ==
    LET cell == NvdbCellOf(index)
    IN  \A a \in Axes :
            \E xs \in NvdbCellPoints(sign, a, cell[a]) : v[a] \in NvdbStencil(a, xs)

NvdbVoxels ==
    {v \in [Axes -> (0 - 2)..1] : \A a \in Axes : v[a] >= NvdbBoxMin[a] /\ v[a] <= NvdbBoxMax[a]}
NvdbWorkerIds == 1..NvdbWorkers
NvdbIdle == [busy |-> FALSE, index |-> 0, maxValue |-> 0]

NvdbInit ==
    /\ nvdb \in [kind : {"nvdb"}, sign : [Axes -> {0 - 1, 1}], hot : NvdbVoxels,
                 maxGrid : {[i \in 0..(NvdbCells - 1) |-> 0]},
                 writes : {[i \in 0..(NvdbCells - 1) |-> 0]},
                 next : {0}, worker : {[w \in NvdbWorkerIds |-> NvdbIdle]}]
    /\ pc = "nvdbRun"
    /\ u = 0
    /\ rng = 0
    /\ ret = One
    /\ obs = NoObs
    /\ medium = Idle
    /\ ray = Idle
    /\ dda = NoDda
    /\ voxel = <<0, 0, 0>>
    /\ nextCrossingT = <<0, 0, 0>>
    /\ seg = NoSeg
    /\ T_majAccum = One
    /\ hom = Idle
    /\ cloud = Idle
    /\ RestIdle

\* x + res->x * (y + res->y * z), the right-hand side of the CHECK_EQ of line 666
NvdbRecombine(cell) == cell[1] + NvdbResX * (cell[2] + NvdbResY * cell[3])

\* every work item writing into the first row of the grid
NvdbWriteIndexRow(index) == index % NvdbResX
\* the element of maxGrid the work item of an index writes (line 702)
NvdbWriteIndex(index) == index

\* a worker of ParallelFor takes the next index and runs the body up to the scan; a failed
\* CHECK_EQ is fatal
NvdbTake(w) ==
    /\ pc = "nvdbRun"
    /\ ~nvdb.worker[w].busy
    /\ nvdb.next < NvdbCells
    /\ IF NvdbRecombine(NvdbCellOf(nvdb.next)) # nvdb.next
       THEN /\ pc' = "nvdbFatal"
            /\ UNCHANGED nvdb
       ELSE /\ nvdb' = [nvdb EXCEPT
                         !.next = @ + 1,
                         !.worker[w] =
                             [busy |-> TRUE, index |-> nvdb.next,
                              maxValue |-> NvdbScanMax(nvdb.sign, nvdb.hot, nvdb.next)]]
            /\ UNCHANGED pc
    /\ UNCHANGED <<medium, ray, u, rng, dda, voxel, nextCrossingT, seg, T_majAccum,
                   ret, obs, hom, cloud, restVars>>

\* maxGrid[index] = maxValue
NvdbWrite(w) ==
    /\ pc = "nvdbRun"
    /\ nvdb.worker[w].busy
    /\ nvdb' = [nvdb EXCEPT
                  !.maxGrid[NvdbWriteIndex(nvdb.worker[w].index)] = nvdb.worker[w].maxValue,
                  !.writes[NvdbWriteIndex(nvdb.worker[w].index)] = @ + 1,
                  !.worker[w] = NvdbIdle]
    /\ UNCHANGED <<medium, ray, u, rng, pc, dda, voxel, nextCrossingT, seg, T_majAccum,
                   ret, obs, hom, cloud, restVars>>

\* ParallelFor returns when every index is done; GetMaxDensityGrid returns maxGrid
NvdbReturn ==
    /\ pc = "nvdbRun"
    /\ nvdb.next = NvdbCells
    /\ \A w \in NvdbWorkerIds : ~nvdb.worker[w].busy
    /\ pc' = "nvdbDone"
    /\ UNCHANGED <<medium, ray, u, rng, dda, voxel, nextCrossingT, seg, T_majAccum,
                   ret, obs, hom, cloud, nvdb, restVars>>

NvdbNext == (\E w \in NvdbWorkerIds : NvdbTake(w) \/ NvdbWrite(w)) \/ NvdbReturn

SpecNvdb == NvdbInit /\ [][NvdbNext]_vars

\* C10 as stated: in the grid GetMaxDensityGrid returns, the value of every cell is >= the
\* value of every source voxel that contributes to a filtered Density lookup at a point of
\* the cell's sub-box, for every mapping, axis-reversing ones included.
C10_NvdbMajorantSound ==
    pc = "nvdbDone" =>
        \A index \in 0..(NvdbCells - 1) : \A v \in NvdbVoxels :
            NvdbContributes(nvdb.sign, v, index) =>
                nvdb.maxGrid[index] >= NvdbValue(nvdb.hot, v)

\* the work items that have run to completion: taken from ParallelFor and no longer held
\* by a worker
NvdbFinished ==
    {i \in 0..(nvdb.next - 1) :
        \A w \in NvdbWorkerIds : ~(nvdb.worker[w].busy /\ nvdb.worker[w].index = i)}

\* C11: whatever worker takes which index and however the workers interleave, every cell
\* of maxGrid is written exactly once, by the work item of its own index (the index
\* recombines from its x, y, z, so the CHECK_EQ never fails); no two work items in flight
\* hold the same index; and the grid returned holds, in every cell, the value the scan of
\* that cell gives on the source grid, so it is the same for every interleaving.
C11_DisjointWrites ==
    /\ pc # "nvdbFatal"
    /\ pc \in {"nvdbRun", "nvdbDone"} =>
          /\ LET finished == NvdbFinished
             IN  \A i \in 0..(NvdbCells - 1) :
                    /\ NvdbRecombine(NvdbCellOf(i)) = i
                    /\ nvdb.writes[i] = (IF i \in finished THEN 1 ELSE 0)
          /\ \A w1, w2 \in NvdbWorkerIds :
                (w1 # w2 /\ nvdb.worker[w1].busy /\ nvdb.worker[w2].busy) =>
                    nvdb.worker[w1].index # nvdb.worker[w2].index
    /\ pc = "nvdbDone" =>
          \A i \in 0..(NvdbCells - 1) :
              /\ nvdb.writes[i] = 1
              /\ nvdb.maxGrid[i] = NvdbScanMax(nvdb.sign, nvdb.hot, i)

\* the loop has returned with every cell written once and a non-zero maximum among the
\* values written
C11_Witness ==
    /\ pc = "nvdbDone"
    /\ \E i \in 0..(NvdbCells - 1) : nvdb.maxGrid[i] # 0
    /\ \A i \in 0..(NvdbCells - 1) : nvdb.writes[i] = 1

(***************************************************************************)
(* A CuboidMedium shared by rendering threads.  The constructor runs once; *)
(* then every thread calls Sample and SampleT_maj on the same medium.  The *)
(* variables of the call (ray, u, rng, pc, dda, voxel, nextCrossingT, seg, *)
(* T_majAccum, ret, obs) are the locals of the thread that is running;     *)
(* the locals of the other threads are parked in threads.parked, and the   *)
(* scheduler switches between threads at any step.                         *)
(***************************************************************************)
NumThreads == 2
ThreadIds == 1..NumThreads

\* CuboidMedium::CuboidMedium: the members after construction; the grid and its
\* resolution come from the one call of provider->GetMaxDensityGrid (line 179)
CuboidMedium(prov, sigma_a, sigma_s, sigScale) ==
    [provider |-> prov.kind, mediumBounds |-> BW,
     sigma_a_spec |-> sigma_a, sigma_s_spec |-> sigma_s, sigScale |-> sigScale,
     maxDensityGrid |-> prov.grid, gridResolution |-> gridResolution]

\* CuboidMedium::Sample(p, lambda), d the density provider->Density(p, lambda) returns
CuboidSample(m, d) ==
    [sigma_a |-> SpecScale(d, SpecScale(m.sigScale, m.sigma_a_spec)),
     sigma_s |-> SpecScale(d, SpecScale(m.sigScale, m.sigma_s_spec))]

\* the locals of the running thread
Locals ==
    [ray |-> ray, u |-> u, rng |-> rng, pc |-> pc, dda |-> dda, voxel |-> voxel,
     nextCrossingT |-> nextCrossingT, seg |-> seg, T_majAccum |-> T_majAccum,
     ret |-> ret, obs |-> obs]
\* the locals of a thread that has made no call yet
FreshLocals ==
    [ray |-> Idle, u |-> 0, rng |-> 0, pc |-> "idle", dda |-> NoDda, voxel |-> <<0, 0, 0>>,
     nextCrossingT |-> <<0, 0, 0>>, seg |-> NoSeg, T_majAccum |-> One,
     ret |-> One, obs |-> NoObs]

\* the ray the threads trace: along x through the dense cell, from outside the bounds
SharedRaySet == {[o |-> <<0 - 1, 0, 1>>, d |-> <<1, 0, 0>>, raytMax |-> Inf]}

SharedInit ==
    /\ provider = [kind |-> "provider", grid |-> HotGrid(0), calls |-> 0]
    /\ medium = Idle
    /\ threads = [cur |-> 1, parked |-> [t \in ThreadIds |-> FreshLocals],
                  props |-> [t \in ThreadIds |-> Idle]]
    /\ pc = "new"
    /\ ray = Idle
    /\ u = 0
    /\ rng = 0
    /\ dda = NoDda
    /\ voxel = <<0, 0, 0>>
    /\ nextCrossingT = <<0, 0, 0>>
    /\ seg = NoSeg
    /\ T_majAccum = One
    /\ ret = One
    /\ obs = NoObs
    /\ hom = Idle
    /\ cloud = Idle
    /\ nvdb = Idle
    /\ params = Idle
    /\ render = Idle
    /\ bufs = Idle
    /\ heap = Idle

\* lines 167-180: the constructor
CuboidConstruct ==
    /\ pc = "new"
    /\ \E sigScale \in {1, 2} :
          medium' = CuboidMedium(provider, <<0, 1>>, <<1, 0>>, sigScale)
    /\ provider' = [provider EXCEPT !.calls = @ + 1]
    /\ pc' = "idle"
    /\ UNCHANGED <<ray, u, rng, dda, voxel, nextCrossingT, seg, T_majAccum, ret, obs,
                   hom, cloud, nvdb, params, threads, render, bufs, heap>>

\* a Sample call that asks the provider for its majorant grid again
CuboidSampleCallRebuilding ==
    /\ pc \in {"idle", "done"}
    /\ threads' = [threads EXCEPT !.props[threads.cur] = CuboidSample(medium, 1)]
    /\ provider' = [provider EXCEPT !.calls = @ + 1]
    /\ medium' = [medium EXCEPT !.maxDensityGrid = provider.grid]
    /\ UNCHANGED <<ray, u, rng, pc, dda, voxel, nextCrossingT, seg, T_majAccum, ret, obs,
                   hom, cloud, nvdb, params, render, bufs, heap>>
\* lines 193-202: the running thread calls Sample; the result goes to the caller
CuboidSampleCall ==
    /\ pc \in {"idle", "done"}
    /\ threads' = [threads EXCEPT !.props[threads.cur] = CuboidSample(medium, 1)]
    /\ UNCHANGED <<medium, provider, ray, u, rng, pc, dda, voxel, nextCrossingT, seg,
                   T_majAccum, ret, obs, hom, cloud, nvdb, params, render, bufs, heap>>

\* the running thread calls SampleT_maj with its own ray, u and rng
SharedStartCall ==
    /\ pc = "idle"
    /\ ray' \in SharedRaySet
    /\ u' = 1
    /\ pc' = "call"
    /\ UNCHANGED <<medium, rng, dda, voxel, nextCrossingT, seg, T_majAccum, ret, obs,
                   hom, cloud, nvdb, restVars>>

\* the scheduler lets thread t run
ThreadSwitch(t) ==
    /\ pc # "new"
    /\ t # threads.cur
    /\ ray' = threads.parked[t].ray
    /\ u' = threads.parked[t].u
    /\ rng' = threads.parked[t].rng
    /\ pc' = threads.parked[t].pc
    /\ dda' = threads.parked[t].dda
    /\ voxel' = threads.parked[t].voxel
    /\ nextCrossingT' = threads.parked[t].nextCrossingT
    /\ seg' = threads.parked[t].seg
    /\ T_majAccum' = threads.parked[t].T_majAccum
    /\ ret' = threads.parked[t].ret
    /\ obs' = threads.parked[t].obs
    /\ threads' = [threads EXCEPT !.cur = t, !.parked[threads.cur] = Locals,
                                  !.parked[t] = FreshLocals]
    /\ UNCHANGED <<medium, provider, hom, cloud, nvdb, params, render, bufs, heap>>

\* an iteration of the sampling loop of the running thread, with rngs that yield the
\* same value at every draw
SharedSampleStep == SampleStep /\ u' = 1

SharedNext ==
    \/ CuboidConstruct
    \/ CuboidSampleCall
    \/ SharedStartCall
    \/ \E t \in ThreadIds : ThreadSwitch(t)
    \/ Enter
    \/ WalkVoxel
    \/ SharedSampleStep
    \/ Advance

SpecShared == SharedInit /\ [][SharedNext]_vars

\* C12: the majorant grid is built once, by the constructor's one call of
\* GetMaxDensityGrid; after construction no step of any thread's Sample or SampleT_maj
\* call changes a member of the medium (maxDensityGrid, gridResolution, mediumBounds, the
\* spectra, sigScale, the provider) or calls GetMaxDensityGrid again, and a step of the
\* running thread's call changes nothing but that call's locals and its caller's rng and
\* result: the locals parked by the other threads stay as they are.
C12_GridBuiltOnce ==
    /\ [](pc = "new" => provider.calls = 0)
    /\ [](pc # "new" =>
            /\ provider.calls = 1
            /\ medium.maxDensityGrid = provider.grid
            /\ medium.gridResolution = gridResolution
            /\ medium.mediumBounds = BW)
    /\ [][pc # "new" => medium' = medium /\ provider' = provider]_vars
    /\ [][threads.cur' = threads.cur => threads.parked' = threads.parked]_vars

\* two SampleT_maj calls on the medium are in progress at once, both past a draw from
\* their rng, and a thread has a Sample result
C12_Witness ==
    /\ pc = "sample"
    /\ rng > 0
    /\ \E t \in ThreadIds :
          /\ threads.parked[t].pc \in {"sample", "advance"}
          /\ threads.parked[t].rng > 0
    /\ \E t \in ThreadIds : threads.props[t] # Idle

(***************************************************************************)
(* RenderCPU (src/pbrt/cpu/render.cpp).  The parsed scene is the input:    *)
(* the medium the camera names, the names CreateMedia defines, the shutter *)
(* interval, whether a shape names a medium, and, for the pixel-material   *)
(* mode, whether the camera generates a ray for the pixel and the surfaces *)
(* along that ray in the order the ray meets them, each with a material or *)
(* with none (an "interface" surface).  ErrorExit does not return.         *)
(***************************************************************************)
MaxSurfaces == 2
\* iterations of the pixel-material loop that find one and the same surface, after which
\* the model stops counting
MaxFound == 2

\* a lookup that returns a null medium for a name that is not defined
findMediumLenient(s, media) ==
    IF s = "" \/ s \notin media THEN [exit |-> FALSE, medium |-> "nullptr", sets |-> FALSE]
    ELSE [exit |-> FALSE, medium |-> s, sets |-> TRUE]
\* the lambda findMedium (lines 32-42): whether it exits, the Medium it returns and whether
\* it sets haveScatteringMedia
findMedium(s, media) ==
    IF s = "" THEN [exit |-> FALSE, medium |-> "nullptr", sets |-> FALSE]
    ELSE IF s \notin media THEN [exit |-> TRUE, medium |-> "nullptr", sets |-> FALSE]
    ELSE [exit |-> FALSE, medium |-> s, sets |-> TRUE]

RenderInit ==
    /\ render \in
          [cameraMediumName : {"", "fog", "smoke"}, media : {{}, {"fog"}},
           exposureTime : {0, 1}, shapeMedia : BOOLEAN, pixelMaterial : BOOLEAN,
           cameraRay : BOOLEAN,
           surfaces : UNION {[1..n -> {"material", "interface"}] : n \in 0..MaxSurfaces},
           pc : {"media"}, haveScatteringMedia : {FALSE}, cameraMedium : {"unset"},
           camera : {FALSE}, integrator : {FALSE}, rendered : {0}, exitAt : {"none"},
           depth : {0}, passed : {0}, found : {<<>>}]
    /\ pc = "render"
    /\ medium = Idle
    /\ ray = Idle
    /\ u = 0
    /\ rng = 0
    /\ dda = NoDda
    /\ voxel = <<0, 0, 0>>
    /\ nextCrossingT = <<0, 0, 0>>
    /\ seg = NoSeg
    /\ T_majAccum = One
    /\ ret = One
    /\ obs = NoObs
    /\ hom = Idle
    /\ cloud = Idle
    /\ nvdb = Idle
    /\ params = Idle
    /\ provider = Idle
    /\ threads = Idle
    /\ bufs = Idle
    /\ heap = Idle

RenderFrame ==
    UNCHANGED <<medium, ray, u, rng, pc, dda, voxel, nextCrossingT, seg, T_majAccum, ret,
                obs, hom, cloud, nvdb, params, provider, threads, bufs, heap>>

\* lines 25-61: media, filter and film are created; a shutter that does not open is fatal
RenderCreateFilm ==
    /\ render.pc = "media"
    /\ render' = IF render.exposureTime <= 0
                 THEN [render EXCEPT !.pc = "fatal", !.exitAt = "shutter"]
                 ELSE [render EXCEPT !.pc = "lookup"]
    /\ RenderFrame

\* line 64: Medium cameraMedium = findMedium(parsedScene.camera.medium, ...)
RenderFindCameraMedium ==
    /\ render.pc = "lookup"
    /\ LET r == findMedium(render.cameraMediumName, render.media)
       IN  render' = IF r.exit
                     THEN [render EXCEPT !.pc = "fatal", !.exitAt = "lookup"]
                     ELSE [render EXCEPT !.pc = "camera", !.cameraMedium = r.medium,
                                         !.haveScatteringMedia = @ \/ r.sets]
    /\ RenderFrame

\* lines 65-98: camera, sampler, textures, lights, materials, aggregate and integrator
RenderCreateIntegrator ==
    /\ render.pc = "camera"
    /\ render' = [render EXCEPT !.pc = "warnings", !.camera = TRUE, !.integrator = TRUE]
    /\ RenderFrame

\* lines 100-160: the warnings (shapes that name a medium set haveScatteringMedia); in
\* pixel-material mode the camera ray is generated, which is fatal when there is none
RenderWarnings ==
    /\ render.pc = "warnings"
    /\ render' =
          IF ~render.pixelMaterial
          THEN [render EXCEPT !.haveScatteringMedia = @ \/ render.shapeMedia, !.pc = "go"]
          ELSE IF ~render.cameraRay
          THEN [render EXCEPT !.haveScatteringMedia = @ \/ render.shapeMedia,
                              !.pc = "fatal", !.exitAt = "noRay"]
          ELSE [render EXCEPT !.haveScatteringMedia = @ \/ render.shapeMedia,
                              !.pc = "pixel", !.depth = 1,
                              !.found = [i \in 1..Len(render.surfaces) |-> 0]]
    /\ RenderFrame

\* accel.Intersect(ray, Infinity): the first surface beyond the origin of the ray, 0 if none
RenderIntersect(r) == IF r.passed < Len(r.surfaces) THEN r.passed + 1 ELSE 0

\* lines 161-195: one iteration of the pixel-material loop; line 197 returns
RenderPixelIteration ==
    /\ render.pc = "pixel"
    /\ LET isect == RenderIntersect(render)
       IN  IF isect = 0
           THEN render' = IF render.depth = 1
                          THEN [render EXCEPT !.pc = "fatal", !.exitAt = "noGeometry"]
                          ELSE [render EXCEPT !.pc = "returned"]
           ELSE /\ render.found[isect] < MaxFound
                /\ render' =
                     IF render.surfaces[isect] = "interface"
                     THEN [render EXCEPT !.found[isect] = @ + 1]
                     ELSE [render EXCEPT !.found[isect] = @ + 1,
                                         !.depth = @ + 1, !.passed = isect]
    /\ RenderFrame

\* line 201: integrator->Render()
RenderRender ==
    /\ render.pc = "go"
    /\ render' = [render EXCEPT !.pc = "returned", !.rendered = @ + 1]
    /\ RenderFrame

RenderNext ==
    \/ RenderCreateFilm
    \/ RenderFindCameraMedium
    \/ RenderCreateIntegrator
    \/ RenderWarnings
    \/ RenderPixelIteration
    \/ RenderRender

SpecRender == RenderInit /\ [][RenderNext]_vars

\* the camera names a medium that CreateMedia did not define
CameraMediumMissing ==
    render.cameraMediumName # "" /\ render.cameraMediumName \notin render.media

\* C13 as stated: when the camera names a missing medium, the fatal exit of the run is the
\* one at the lookup.
C13_Original ==
    (CameraMediumMissing /\ render.pc = "fatal") => render.exitAt = "lookup"

\* C13 amended: when the camera names a non-empty medium missing from the media map, the
\* run never gets past the lookup: it ends in a fatal error exit, at the lookup when the
\* shutter opens and at the earlier shutter check when it does not, with no camera and no
\* integrator created and Render never invoked; for an empty medium name the lookup
\* yields a null medium, no error, and leaves haveScatteringMedia unset.
C13_MissingMediumFatal ==
    /\ CameraMediumMissing =>
          /\ render.pc \in {"media", "lookup", "fatal"}
          /\ render.rendered = 0
          /\ ~render.camera
          /\ ~render.integrator
          /\ render.pc = "fatal" =>
                render.exitAt = (IF render.exposureTime <= 0 THEN "shutter" ELSE "lookup")
    /\ (render.cameraMediumName = "" /\ render.pc = "camera") =>
          /\ render.cameraMedium = "nullptr"
          /\ render.exitAt = "none"
          /\ ~render.haveScatteringMedia

\* the fatal exit at the lookup, in a scene that defines another medium
C13_Witness ==
    /\ CameraMediumMissing
    /\ render.media # {}
    /\ render.pc = "fatal"
    /\ render.exitAt = "lookup"

\* C20 as stated: in pixel-material mode every iteration that finds an intersection,
\* one with a null material included, respawns the ray past it and increments depth, so
\* no intersection is found twice; and the mode never calls integrator->Render().
C20_PixelLoopAdvances ==
    /\ [](render.pc \in {"pixel", "returned", "fatal"} /\ render.pixelMaterial =>
            /\ render.rendered = 0
            /\ \A i \in 1..Len(render.found) : render.found[i] <= 1)
    /\ [][(render.pc = "pixel" /\ RenderIntersect(render) # 0) =>
            /\ render'.passed = RenderIntersect(render)
            /\ render'.depth = render.depth + 1]_vars

(***************************************************************************)
(* CuboidMedium::Create.  The ParameterDictionary and the outcome of       *)
(* GetMediumScatteringProperties for the preset name are the inputs: the   *)
(* lookup returns found or not, and leaves each of *sigma_a and *sigma_s   *)
(* either unset (NullSpectrum) or set to a spectrum of the preset.         *)
(***************************************************************************)
\* Spectrum sig_a = nullptr
NullSpectrum == <<>>
\* alloc.new_object<ConstantSpectrum>(1.f)
ConstantSpectrumOne == [c \in Channels |-> 1]

\* the explicit parameter taken even when the preset supplied the coefficient
CreateSpectrumParamFirst(fromPreset, fromParam) ==
    IF fromParam # NullSpectrum THEN fromParam
    ELSE IF fromPreset # NullSpectrum THEN fromPreset
    ELSE ConstantSpectrumOne
\* lines 335-340 (and 341-346): the preset's value, else the parameter, else the constant 1
CreateSpectrum(fromPreset, fromParam) ==
    IF fromPreset # NullSpectrum THEN fromPreset
    ELSE IF fromParam # NullSpectrum THEN fromParam
    ELSE ConstantSpectrumOne

CreateInit ==
    /\ params \in
          [preset : {"", "Skin1", "nosuch"},
           lookup : [found : BOOLEAN, sig_a : {NullSpectrum, <<2, 2>>},
                     sig_s : {NullSpectrum, <<3, 3>>}],
           sigma_a : {NullSpectrum, <<0, 1>>}, sigma_s : {NullSpectrum, <<1, 0>>},
           scale : {1, 2},
           warnings : {0}, asked_a : {FALSE}, asked_s : {FALSE}]
    /\ provider = [kind |-> "provider", grid |-> HotGrid(0), calls |-> 0]
    /\ pc = "create"
    /\ medium = Idle
    /\ ray = Idle
    /\ u = 0
    /\ rng = 0
    /\ dda = NoDda
    /\ voxel = <<0, 0, 0>>
    /\ nextCrossingT = <<0, 0, 0>>
    /\ seg = NoSeg
    /\ T_majAccum = One
    /\ ret = One
    /\ obs = NoObs
    /\ hom = Idle
    /\ cloud = Idle
    /\ nvdb = Idle
    /\ threads = Idle
    /\ render = Idle
    /\ bufs = Idle
    /\ heap = Idle

\* lines 324-354: Create, the constructor it calls included
CuboidCreate ==
    /\ pc = "create"
    /\ LET called == params.preset # ""
           preset_a == IF called THEN params.lookup.sig_a ELSE NullSpectrum
           preset_s == IF called THEN params.lookup.sig_s ELSE NullSpectrum
       IN  /\ params' = [params EXCEPT
                           !.warnings = IF called /\ ~params.lookup.found THEN 1 ELSE 0,
                           !.asked_a = (preset_a = NullSpectrum),
                           !.asked_s = (preset_s = NullSpectrum)]
           /\ medium' = CuboidMedium(provider,
                                     CreateSpectrum(preset_a, params.sigma_a),
                                     CreateSpectrum(preset_s, params.sigma_s),
                                     params.scale)
    /\ provider' = [provider EXCEPT !.calls = @ + 1]
    /\ pc' = "created"
    /\ UNCHANGED <<ray, u, rng, dda, voxel, nextCrossingT, seg, T_majAccum, ret, obs,
                   hom, cloud, nvdb, threads, render, bufs, heap>>

CreateNext == CuboidCreate

SpecCreate == CreateInit /\ [][CreateNext]_vars

\* what the preset supplied for sigma_a and sigma_s: nothing when no preset is named
PresetSigmaA == IF params.preset = "" THEN NullSpectrum ELSE params.lookup.sig_a
PresetSigmaS == IF params.preset = "" THEN NullSpectrum ELSE params.lookup.sig_s

\* C14: Create always constructs a medium: a named preset that is not found costs one
\* warning and nothing else; each of sigma_a and sigma_s, independently of the other, is
\* the preset's value if the preset set it, else the explicit parameter if present, else
\* the constant spectrum 1, hence never null; and the explicit parameter of a coefficient
\* the preset supplied is not looked up.
C14_CreateFallbacks ==
    /\ pc \in {"create", "created"}
    /\ pc = "created" =>
          /\ medium.sigma_a_spec # NullSpectrum
          /\ medium.sigma_s_spec # NullSpectrum
          /\ params.warnings =
                (IF params.preset # "" /\ ~params.lookup.found THEN 1 ELSE 0)
          /\ medium.sigma_a_spec =
                (IF PresetSigmaA # NullSpectrum THEN PresetSigmaA
                 ELSE IF params.sigma_a # NullSpectrum THEN params.sigma_a
                 ELSE ConstantSpectrumOne)
          /\ medium.sigma_s_spec =
                (IF PresetSigmaS # NullSpectrum THEN PresetSigmaS
                 ELSE IF params.sigma_s # NullSpectrum THEN params.sigma_s
                 ELSE ConstantSpectrumOne)
          /\ params.asked_a = (PresetSigmaA = NullSpectrum)
          /\ params.asked_s = (PresetSigmaS = NullSpectrum)
          /\ medium.sigScale = params.scale
          /\ provider.calls = 1

\* an unknown preset with both explicit parameters absent: one warning, both coefficients
\* the constant 1
C14_Witness ==
    /\ pc = "created"
    /\ params.preset = "nosuch"
    /\ ~params.lookup.found
    /\ params.warnings = 1
    /\ medium.sigma_a_spec = ConstantSpectrumOne
    /\ medium.sigma_s_spec = ConstantSpectrumOne

(***************************************************************************)
(* The choice of stepAxis (lines 260-266) as a function of the three       *)
(* crossing times, over finite times, the infinities and NaN.              *)
(***************************************************************************)
AxisTimes == {NegInf, 0, 1, 2, Inf, NaN}

AxisInit ==
    /\ nextCrossingT \in [Axes -> AxisTimes]
    /\ pc = "axis"
    /\ seg = NoSeg
    /\ medium = Idle
    /\ ray = Idle
    /\ u = 0
    /\ rng = 0
    /\ dda = NoDda
    /\ voxel = <<0, 0, 0>>
    /\ T_majAccum = One
    /\ ret = One
    /\ obs = NoObs
    /\ hom = Idle
    /\ cloud = Idle
    /\ nvdb = Idle
    /\ RestIdle

\* lines 261-265: bits and stepAxis = cmpToAxis[bits]
AxisSelect ==
    /\ pc = "axis"
    /\ seg' = [seg EXCEPT !.stepAxis = StepAxis(nextCrossingT)]
    /\ pc' = "axisDone"
    /\ UNCHANGED <<medium, ray, u, rng, dda, voxel, nextCrossingT, T_majAccum, ret, obs,
                   hom, cloud, nvdb, restVars>>

AxisNext == AxisSelect

SpecAxis == AxisInit /\ [][AxisNext]_vars

\* the three crossing times are totally ordered: none is NaN
TotallyOrdered(nct) == \A a \in Axes : nct[a] # NaN

\* C15: for totally ordered crossing times the axis chosen has a crossing time equal to
\* the minimum of the three; among the axes that tie for the minimum it is the
\* highest-numbered one, which makes the choice a function of the three values; and the
\* comparison code is never 2 or 5.
C15_StepAxisIsMin ==
    (pc = "axisDone" /\ TotallyOrdered(nextCrossingT)) =>
        /\ \A a \in Axes : nextCrossingT[seg.stepAxis] <= nextCrossingT[a]
        /\ \A a \in Axes :
              nextCrossingT[a] = nextCrossingT[seg.stepAxis] => a <= seg.stepAxis
        /\ CmpBits(nextCrossingT) \notin {2, 5}

\* all three times equal and infinite: the comparison code is 0 and the last axis is taken
C15_Witness ==
    /\ pc = "axisDone"
    /\ nextCrossingT = <<Inf, Inf, Inf>>
    /\ CmpBits(nextCrossingT) = 0
    /\ seg.stepAxis = 3

(***************************************************************************)
(* The majorant optical depth of a piece of the ray, computed from the     *)
(* geometry alone: the ray parameters of the model are integers, so the    *)
(* piece [a, b] is cut into unit intervals, each inside one cell of the    *)
(* grid, the cell its midpoint lies in.                                    *)
(***************************************************************************)
\* the cell, along one axis, of the midpoint of the ray over [s, s + 1]
MidpointCell(r, s, a) ==
    Clamp((2 * (r.o[a] + r.d[a] * s) + r.d[a]) \div (2 * CellW[a]), 0, gridResolution[a] - 1)

\* the integral of sigma_t * maxDensity over [a, b], per channel
RECURSIVE MajorantDepth(_, _, _, _)
MajorantDepth(m, r, a, b) ==
    IF a >= b THEN One
    ELSE SpecAdd(SpecScale(m.maxDensityGrid[Offset([x \in Axes |-> MidpointCell(r, a, x)])],
                           SigmaT(m)),
                 MajorantDepth(m, r, a + 1, b))

\* the last point reported to the callback, tMin if there was none
LastReported == IF obs.nCallbacks = 0 THEN dda.tMin ELSE obs.lastT

\* C16 as stated: the T_maj passed to each callback is the majorant decay integrated along
\* the ray from the previous callback point (tMin if none) to this one, every voxel
\* crossed counting with its own majorant; the accumulator covers the path from the last
\* callback point to the point the walk has reached, so it is 1 right after a callback;
\* and a walk that ends without a stop returns the majorant decay from the last callback
\* point to the end of the walk.
C16_TransmittanceAccounting ==
    /\ obs.nCallbacks > 0 => obs.lastT_maj = MajorantDepth(medium, ray, obs.from, obs.lastT)
    /\ pc \in {"voxel", "sample"} =>
          T_majAccum = MajorantDepth(medium, ray, LastReported, seg.t0)
    /\ pc = "advance" => T_majAccum = MajorantDepth(medium, ray, LastReported, seg.t1)
    /\ (pc = "done" /\ obs.visited > 0 /\ ~obs.stopped) =>
          ret = MajorantDepth(medium, ray, LastReported, seg.t1)

\* the crossing times the DDA setup computes for the ray are totally ordered: none is NaN
OrderedCrossings ==
    \A a \in Axes :
        AxisNextCrossing(ray, IntersectP(ray.o, ray.d, ray.raytMax).t0, a) # NaN

\* C16 for rays with totally ordered crossing times: the accounting is exact for every
\* ray but those that start on a max face of the bounds with direction component 0 along
\* the axis of that face.
C16_AccountingOrderedTimes == OrderedCrossings => C16_TransmittanceAccounting

\* C17: every read of maxDensityGrid is in range: whenever the walk is at a voxel, each
\* voxel[axis] is in [0, gridResolution[axis] - 1] and the linear offset is in
\* [0, res.x * res.y * res.z), for every entry point and every combination of step
\* directions; the entry voxel is in range also for entry coordinates outside the bounds,
\* which the clamp brings back.
C17_GridReadInRange ==
    /\ pc \in {"voxel", "sample", "advance"} =>
          /\ InGrid(voxel)
          /\ Offset(voxel) \in 0..(NumCells - 1)
          /\ Offset(voxel) \in DOMAIN medium.maxDensityGrid
    /\ \A a \in Axes : \A gi \in (0 - BW[a] - 1)..(2 * BW[a] + 1) :
          EntryVoxel(gi, a) \in 0..(gridResolution[a] - 1)

\* a read after two steps of a walk that entered on a max face, where the clamp acts, with
\* one axis stepping forward and one backward
C17_Witness ==
    /\ pc = "voxel"
    /\ obs.steps >= 2
    /\ \E a \in Axes : GridIntersect(ray, dda.tMin, a) = BW[a]
    /\ \E a \in Axes : ray.d[a] > 0
    /\ \E a \in Axes : ray.d[a] < 0

\* the candidate of the iteration the sampling loop is about to run
NextCandidate == FAdd(seg.t0, SampleExponential(u, seg.sigma_maj[1]))

\* C18 as stated: every iteration of the sampling loop either leaves the loop or strictly
\* increases t0.
C18_Original ==
    [][pc = "sample" => (pc' # "sample" \/ seg'.t0 > seg.t0)]_vars

\* C18 amended: every iteration draws exactly one rng value; a candidate t >= t1 leaves
\* the loop without a callback; a candidate t < t1 is below tMax (t1 <= tMax) and is
\* reported, and if the callback answers true t0 becomes t, which is t0 plus the sampled
\* distance: greater than t0 when u > 0 and equal to t0 when u = 0, so an iteration with
\* u = 0 reports a point and leaves t0 where it was.  Reported points are non-decreasing
\* and lie in [tMin, tMax).
C18_SamplingLoop ==
    /\ [](pc = "sample" => seg.t1 <= dda.tMax /\ dda.tMin <= seg.t0 /\ seg.t0 <= seg.t1)
    /\ [](obs.nCallbacks > 0 =>
            /\ dda.tMin <= obs.lastT
            /\ obs.lastT < dda.tMax
            /\ obs.from <= obs.lastT)
    /\ [][pc = "sample" =>
            /\ rng' = rng + 1
            /\ IF NextCandidate >= seg.t1
               THEN pc' = "advance" /\ obs' = obs /\ seg' = seg
               ELSE /\ NextCandidate < dda.tMax
                    /\ obs'.nCallbacks = obs.nCallbacks + 1
                    /\ obs'.lastT = NextCandidate
                    /\ pc' \in {"sample", "done"}
                    /\ pc' = "done" <=> obs'.stopped
                    /\ pc' = "sample" =>
                          /\ seg'.t0 = NextCandidate
                          /\ seg'.t0 >= seg.t0
                          /\ seg'.t0 > seg.t0 <=> u > 0]_vars

\* two callbacks in a row at one and the same point: the second candidate was drawn with
\* u = 0, and the loop is still in the voxel with t0 unchanged
C18_Witness ==
    /\ pc = "sample"
    /\ obs.nCallbacks >= 2
    /\ obs.lastT = obs.from
    /\ seg.t0 = obs.lastT

(***************************************************************************)
(* NanoVDBBuffer.  A pointer is the number of the block allocate_bytes     *)
(* returned (blocks are numbered in the order they are handed out), and 0  *)
(* is nullptr.  Each block records its size, the memory resource it came   *)
(* from, how often it was passed to deallocate_bytes, and whether a        *)
(* deallocation named another size or resource.  An operation works on the *)
(* pair st = [bufs, heap].                                                 *)
(***************************************************************************)
NumBuffers == 2
MaxBlocks == 2
BufIds == 1..NumBuffers
\* sizes passed to init and to the sizing constructor
BufSizes == {0, 1, 2}
\* the memory resources the Allocators refer to
Resources == {1, 2}

\* alloc.allocate_bytes(n, 128) on resource res: a new block
AllocateBytes(h, n, res) ==
    [h EXCEPT !.blocks = Append(@, [size |-> n, resource |-> res, frees |-> 0,
                                    bad |-> FALSE])]

\* alloc.deallocate_bytes(p, n, 128) on resource res; a null p is ignored
DeallocateBytes(h, p, n, res) ==
    IF p = 0 THEN h
    ELSE [h EXCEPT !.blocks[p].frees = @ + 1,
                   !.blocks[p].bad = @ \/ h.blocks[p].size # n \/ h.blocks[p].resource # res]

\* a moved-from buffer left with its block
BufMovedFromKept(buf) == buf
\* other.bytesAllocated = 0; other.ptr = nullptr (lines 537-538 and 549-550)
BufMovedFrom(buf) == [buf EXCEPT !.bytesAllocated = 0, !.ptr = 0]

\* clear() (lines 571-575)
BufClear(st, b) ==
    [bufs |-> [st.bufs EXCEPT ![b].bytesAllocated = 0, ![b].ptr = 0],
     heap |-> DeallocateBytes(st.heap, st.bufs[b].ptr, st.bufs[b].bytesAllocated,
                              st.bufs[b].alloc)]

\* init(size) (lines 555-564)
BufInit(st, b, size) ==
    IF size = st.bufs[b].bytesAllocated THEN st
    ELSE LET s1 == IF st.bufs[b].bytesAllocated > 0 THEN BufClear(st, b) ELSE st
         IN  IF size = 0 THEN s1
             ELSE [bufs |-> [s1.bufs EXCEPT ![b].bytesAllocated = size,
                                            ![b].ptr = Len(s1.heap.blocks) + 1],
                   heap |-> AllocateBytes(s1.heap, size, s1.bufs[b].alloc)]

\* operator=(NanoVDBBuffer &&other) (lines 541-552), statement by statement, so that
\* other may be the buffer itself
BufMoveAssignTo(st, b, o) ==
    LET s1 == BufClear(st, b)
        s2 == [s1 EXCEPT !.bufs[b].alloc = s1.bufs[o].alloc]
        s3 == [s2 EXCEPT !.bufs[b].bytesAllocated = s2.bufs[o].bytesAllocated]
        s4 == [s3 EXCEPT !.bufs[b].ptr = s3.bufs[o].ptr]
    IN  [s4 EXCEPT !.bufs[o] = BufMovedFrom(s4.bufs[o])]

Unborn == [state |-> "unborn", alloc |-> 1, bytesAllocated |-> 0, ptr |-> 0]
BufState == [bufs |-> bufs, heap |-> heap]

BufInit0 ==
    /\ bufs = [b \in BufIds |-> Unborn]
    /\ heap = [blocks |-> <<>>, last |-> [op |-> "none", other |-> 0]]
    /\ pc = "buffers"
    /\ medium = Idle
    /\ ray = Idle
    /\ u = 0
    /\ rng = 0
    /\ dda = NoDda
    /\ voxel = <<0, 0, 0>>
    /\ nextCrossingT = <<0, 0, 0>>
    /\ seg = NoSeg
    /\ T_majAccum = One
    /\ ret = One
    /\ obs = NoObs
    /\ hom = Idle
    /\ cloud = Idle
    /\ nvdb = Idle
    /\ params = Idle
    /\ provider = Idle
    /\ threads = Idle
    /\ render = Idle

\* the state after an operation: st, with a note of the operation when it was a move
\* (from the buffer other) or an init with the current size
BufBecomes(st, op, o) ==
    /\ Len(st.heap.blocks) <= MaxBlocks
    /\ bufs' = st.bufs
    /\ heap' = [st.heap EXCEPT !.last = [op |-> op, other |-> o]]
    /\ UNCHANGED <<medium, ray, u, rng, pc, dda, voxel, nextCrossingT, seg, T_majAccum,
                   ret, obs, hom, cloud, nvdb, params, provider, threads, render>>

\* NanoVDBBuffer() and NanoVDBBuffer(Allocator) (lines 529-530)
BufConstruct(b) ==
    /\ bufs[b].state = "unborn"
    /\ \E res \in Resources :
          BufBecomes([BufState EXCEPT !.bufs[b] = [Unborn EXCEPT !.state = "live",
                                                                 !.alloc = res]],
                     "none", 0)

\* NanoVDBBuffer(size, alloc) (line 531)
BufConstructSized(b) ==
    /\ bufs[b].state = "unborn"
    /\ \E res \in Resources, size \in BufSizes :
          BufBecomes(BufInit([BufState EXCEPT !.bufs[b] = [Unborn EXCEPT !.state = "live",
                                                                         !.alloc = res]],
                             b, size),
                     "none", 0)

\* NanoVDBBuffer(NanoVDBBuffer &&other) (lines 533-539)
BufMoveConstruct(b, o) ==
    /\ bufs[b].state = "unborn"
    /\ bufs[o].state = "live"
    /\ BufBecomes([BufState EXCEPT !.bufs[b] = [bufs[o] EXCEPT !.state = "live"],
                                   !.bufs[o] = BufMovedFrom(bufs[o])],
                  "move", o)

\* b = std::move(o), o = b included
BufMoveAssign(b, o) ==
    /\ bufs[b].state = "live"
    /\ bufs[o].state = "live"
    /\ BufBecomes(BufMoveAssignTo(BufState, b, o), "move", o)

\* b.init(size)
BufInitCall(b) ==
    /\ bufs[b].state = "live"
    /\ \E size \in BufSizes :
          BufBecomes(BufInit(BufState, b, size),
                     IF size = bufs[b].bytesAllocated THEN "initSame" ELSE "none", 0)

\* b.clear()
BufClearCall(b) ==
    /\ bufs[b].state = "live"
    /\ BufBecomes(BufClear(BufState, b), "none", 0)

\* ~NanoVDBBuffer() (line 553)
BufDestroy(b) ==
    /\ bufs[b].state = "live"
    /\ BufBecomes([BufClear(BufState, b) EXCEPT !.bufs[b].state = "dead",
                                                !.bufs[b].alloc = Unborn.alloc],
                  "none", 0)

BufNext ==
    \E b \in BufIds :
        \/ BufConstruct(b)
        \/ BufConstructSized(b)
        \/ \E o \in BufIds : BufMoveConstruct(b, o)
        \/ \E o \in BufIds : BufMoveAssign(b, o)
        \/ BufInitCall(b)
        \/ BufClearCall(b)
        \/ BufDestroy(b)

SpecBuf == BufInit0 /\ [][BufNext]_vars

\* the live buffers that hold block p
Holders(p) == {b \in BufIds : bufs[b].state = "live" /\ bufs[b].ptr = p}

\* C19: every block is deallocated at most once, with its own size and on its own
\* resource, and is not yet deallocated exactly while one live buffer holds it: so there
\* is no double free, no two live buffers hold the same block, and nothing is leaked once
\* all buffers are destroyed; a buffer has a null ptr exactly when bytesAllocated is 0,
\* and a non-null ptr goes with the size of its block; init(n) with n the current size
\* changes neither the buffers nor the heap; and the source of a move, of a
\* self-assignment too, is left empty.
C19_BufferOwnership ==
    /\ [](pc = "buffers" =>
            /\ \A p \in 1..Len(heap.blocks) :
                  /\ heap.blocks[p].frees <= 1
                  /\ ~heap.blocks[p].bad
                  /\ Cardinality(Holders(p)) = 1 - heap.blocks[p].frees
            /\ \A b \in BufIds :
                  /\ bufs[b].ptr = 0 <=> bufs[b].bytesAllocated = 0
                  /\ (bufs[b].state = "live" /\ bufs[b].ptr # 0) =>
                        /\ bufs[b].ptr \in 1..Len(heap.blocks)
                        /\ heap.blocks[bufs[b].ptr].size = bufs[b].bytesAllocated
                  /\ bufs[b].state # "live" => bufs[b].ptr = 0
            /\ heap.last.op = "move" =>
                  /\ bufs[heap.last.other].ptr = 0
                  /\ bufs[heap.last.other].bytesAllocated = 0)
    /\ [][(pc = "buffers" /\ heap'.last.op = "initSame") =>
            /\ bufs' = bufs
            /\ heap'.blocks = heap.blocks]_vars

\* every buffer has been destroyed, and every block handed out, more than one, has been
\* given back
C19_Witness ==
    /\ pc = "buffers"
    /\ \A b \in BufIds : bufs[b].state = "dead"
    /\ Len(heap.blocks) >= 2
    /\ \A p \in 1..Len(heap.blocks) : heap.blocks[p].frees = 1

====
